---- MODULE Spec2Model ----
(***************************************************************************)
(* Digital Loggers DIN III relay switch platform                           *)
(* (homeassistant/components/digitalloggers/switch.py).                    *)
(*                                                                         *)
(* One power switch with up to MaxOutlets outlets, one DINRelayDevice      *)
(* (the per-device status cache) and one DINRelay controller per           *)
(* registered outlet.  Every controller runs in its own thread: update()   *)
(* is a sequence of steps (enter the throttled device update, the query    *)
(* travels to the device, the device answers, the answer is stored, the    *)
(* controller extracts its entry) that interleave with the steps of the    *)
(* other controllers and with turn_on / turn_off.                          *)
(*                                                                         *)
(* Time is kept as elapsed-time counters (seconds since the last stored    *)
(* fetch, seconds since the last on command); Tick advances all of them.   *)
(* They saturate at MaxAge, which is above every interval compared with.   *)
(***************************************************************************)
EXTENDS Integers, Sequences, FiniteSets, TLC

\* ---------------------------------------------------------------- bounds
MaxOutlets == 2
MaxAge == 6
MaxCmds == 1
MaxUpdates == 3
MaxEnv == 1

\* ------------------------------------------------------------- constants
\* The interval taken one second too long.
MIN_TIME_BETWEEN_UPDATES_longer == 5 + 1

\* MIN_TIME_BETWEEN_UPDATES = timedelta(seconds=5) (switch.py 31)
MIN_TIME_BETWEEN_UPDATES == 5

None == "None"
NoTime == 0 - 1
NoSnapshot == << >>

Ids == 1..MaxOutlets
Labels == {None, "lamp"}
OutletStates == {"ON", "OFF", None}

\* config[CONF_NAME], at its default (switch.py 24, 54)
controller_name == "DINRelay"

\* config[CONF_HOST], kept as DINRelayDevice.hostname (switch.py 53, 146)
hostname == "relay.local"

VARIABLES
    dev,            \* the unit's outlet table: sequence of <<number, description, state>>
    ignore_unnamed, \* config[CONF_IGNORE_UNNAMED]
    setup,          \* "pending" | "failed" | "crashed" | "done": outcome of setup_platform
    verify,         \* what power_switch.verify() returned: "none" | "true" | "false"
    logged,         \* _LOGGER.error was called by setup_platform
    setupQueried,   \* setup_platform called power_switch.statuslist()
    outlets,        \* outlet numbers of the DINRelay entities handed to add_entities
    outlet_number,  \* DINRelay._outlet_number per controller
    name,           \* DINRelay._name
    state,          \* DINRelay._state
    pc,             \* position of each controller's update(): idle/blocked/query/extract
    err,            \* outcome of the controller's last update(): "none" or the exception
    statuslist,     \* DINRelayDevice._statuslist (NoSnapshot stands for None)
    sinceFetch,     \* seconds since the throttle recorded a fetch, NoTime if never
    lock,           \* set holding the controller whose device update is running
    inflight,       \* statuslist() requests on the wire: [by, status, data]
    nTurnCalls,     \* number of turn_on / turn_off calls made
    nSetCmds,       \* number of set commands issued to the unit
    lastCall,       \* <<controller, on>> of the last turn_on / turn_off call
    lastCmd,        \* <<outlet number, on>> of the last set command issued
    concurrent,     \* the controller's update() found another device update running
    fresh,          \* a fetch has been stored since the controller entered update()
    sinceOn,        \* seconds since the controller's last on command, NoTime if none
                    \*   or if an off command followed
    waited,         \* the running update() was issued >= 5 s after that on command
    skipped,        \* the running update() was answered by the throttle without a query
    lastAnswer,     \* the last status list power_switch.statuslist() returned to the device
    sinceFail,      \* seconds since a statuslist() call of the device update failed,
                    \*   NoTime if none did since the last one that succeeded
    nUpdates,       \* number of update() calls made
    nEnv            \* number of label / topology changes made on the unit

vars == <<dev, ignore_unnamed, setup, logged, setupQueried, outlets, outlet_number,
          name, state, pc, err, statuslist, sinceFetch, lock, inflight,
          nTurnCalls, nSetCmds, lastCall, lastCmd, concurrent, fresh, sinceOn, waited,
          skipped, lastAnswer, nUpdates, nEnv, verify, sinceFail>>

devVars == <<dev, nEnv>>
setupVars == <<ignore_unnamed, setup, verify, logged, setupQueried, outlets, outlet_number>>
cacheVars == <<statuslist, sinceFetch, lock, inflight>>
cmdVars == <<nTurnCalls, nSetCmds, lastCall, lastCmd>>
histVars == <<concurrent, fresh, sinceOn, waited, skipped, lastAnswer, sinceFail, nUpdates>>

\* ------------------------------------------------------------ the unit
\* An outlet table of n outlets, numbered 1..n.
Tables(n) == { t \in [1..n -> Ids \X Labels \X OutletStates] : \A i \in 1..n : t[i][1] = i }

\* The tables the unit starts with: the first outlet in any condition, the
\* others labelled and off.
InitTables == { t \in Tables(MaxOutlets) :
                   \A i \in 2..MaxOutlets : t[i][2] = "lamp" /\ t[i][3] = "OFF" }

\* str(outlet_number)
Str(n) == ToString(n)

\* The description is taken as it is, absent or not.
OrElse_first(x, y) == x

\* Python's "x or y" on a description: None and "" are falsy.
OrElse(x, y) == IF x = None \/ x = "" THEN y ELSE x

\* Python's seq[i] with a 0-based, possibly negative index.
PyIndex(seq, i) ==
    IF seq = NoSnapshot
    THEN [err |-> "TypeError", val |-> <<0, None, None>>]
    ELSE IF i >= 0 /\ i < Len(seq)
    THEN [err |-> "none", val |-> seq[i + 1]]
    ELSE IF i < 0 /\ 0 - i <= Len(seq)
    THEN [err |-> "none", val |-> seq[Len(seq) + i + 1]]
    ELSE [err |-> "IndexError", val |-> <<0, None, None>>]

Inc(t) == IF t = NoTime THEN NoTime ELSE IF t < MaxAge THEN t + 1 ELSE t

\* ------------------------------------------------------ power_switch
\* One statuslist() request put on the wire by controller c.
Request(c) == [by |-> c, status |-> "pending", data |-> NoSnapshot]

\* The unit executes a set command for outlet n: an outlet it has changes state.
SetOutlet(n, on) ==
    [i \in 1..Len(dev) |->
        IF dev[i][1] = n THEN <<dev[i][1], dev[i][2], IF on THEN "ON" ELSE "OFF">>
        ELSE dev[i]]

\* The state is reported as on unless the unit says "OFF".
IsOn_unless_off(st) == st # "OFF"

\* self._outlet.state == "ON", outlet_status[2] == "ON" (switch.py 99, 136)
IsOn(st) == st = "ON"

\* ------------------------------------------------------ setup_platform
\* Every entry is kept, whatever ignore_unnamed says.
Kept_all(sl) == 1..Len(sl)

\* The entries setup_platform builds an entity from (switch.py 72-83): an
\* entry without description is skipped when ignore_unnamed is set.
Kept(sl) == { i \in 1..Len(sl) : ~(sl[i][2] = None /\ ignore_unnamed) }

\* "if not power_switch.verify()" taken as if verification never failed.
VerifyIgnored(verified) == FALSE

\* if not power_switch.verify(): (switch.py 65)
VerifyFailed(verified) == ~verified

setup_platform(verified, answered) ==
    /\ setup = "pending"
    /\ verify' = IF verified THEN "true" ELSE "false"
    /\ IF VerifyFailed(verified)
       THEN /\ logged' = TRUE
            /\ setup' = "failed"
            /\ UNCHANGED <<setupQueried, outlets, outlet_number, name, state>>
       ELSE /\ setupQueried' = TRUE
            /\ logged' = FALSE
            /\ IF ~answered
               THEN /\ setup' = "crashed"
                    /\ UNCHANGED <<outlets, outlet_number, name, state>>
               ELSE /\ setup' = "done"
                    /\ outlets' = { dev[i][1] : i \in Kept(dev) }
                    /\ outlet_number' = [c \in Ids |-> c]
                    /\ name' = [c \in Ids |->
                                   IF c \in { dev[i][1] : i \in Kept(dev) }
                                   THEN IF dev[c][2] = None THEN Str(c) ELSE dev[c][2]
                                   ELSE None]
                    /\ state' = [c \in Ids |->
                                   c \in { dev[i][1] : i \in Kept(dev) } /\ IsOn(dev[c][3])]
    /\ UNCHANGED <<devVars, ignore_unnamed, pc, err>>
    /\ UNCHANGED <<cacheVars, cmdVars, histVars>>

\* ------------------------------------------------------ DINRelayDevice
\* get_outlet_status (switch.py 148-150): self._statuslist[outlet_number - 1]
get_outlet_status(n) == PyIndex(statuslist, n - 1)

\* The answer is merged into the cached list: entries the answer lacks stay.
DINRelayDevice_update_merged(answer) ==
    statuslist' = [i \in 1..(IF Len(answer) > Len(statuslist) THEN Len(answer)
                                                             ELSE Len(statuslist)) |->
                      IF i <= Len(answer) THEN answer[i] ELSE statuslist[i]]

\* The answer is dropped: the cached list stays as it was.
DINRelayDevice_update_dropped(answer) == statuslist' = statuslist

\* The body of DINRelayDevice.update (switch.py 155): the answer of
\* power_switch.statuslist() replaces self._statuslist.
DINRelayDevice_update(answer) == statuslist' = answer

\* The Throttle(MIN_TIME_BETWEEN_UPDATES) decorator of DINRelayDevice.update
\* (switch.py 152), as the status cache of the design: a caller waits while
\* another device update runs; inside the interval the call returns without a
\* query; otherwise the caller runs the query.
Throttled == sinceFetch # NoTime /\ sinceFetch < MIN_TIME_BETWEEN_UPDATES

ThrottleGate(c) ==
    IF Throttled
    THEN /\ pc' = [pc EXCEPT ![c] = "extract"]
         /\ skipped' = [skipped EXCEPT ![c] = TRUE]
         /\ UNCHANGED <<lock, inflight>>
    ELSE /\ pc' = [pc EXCEPT ![c] = "query"]
         /\ skipped' = [skipped EXCEPT ![c] = FALSE]
         /\ lock' = {c}
         /\ inflight' = inflight \cup {Request(c)}

ThrottleEnter(c) ==
    IF lock # {}
    THEN /\ pc' = [pc EXCEPT ![c] = "blocked"]
         /\ concurrent' = [concurrent EXCEPT ![c] = TRUE]
         /\ UNCHANGED <<lock, inflight, skipped>>
    ELSE /\ ThrottleGate(c)
         /\ concurrent' = [concurrent EXCEPT ![c] = FALSE]

\* --------------------------------------------------------- DINRelay
\* DINRelay.name (switch.py 101-104)
DINRelay_name(c) == controller_name \o "_" \o name[c]

\* The unique id built from the displayed name instead of the outlet number.
DINRelay_unique_id_by_name(c) == hostname \o "_" \o name[c]

\* DINRelay.unique_id (switch.py 116-119)
DINRelay_unique_id(c) == hostname \o "_" \o Str(outlet_number[c])

\* The controller queries the unit itself, past the device's throttle.
parent_device_update_direct(c) ==
    /\ pc' = [pc EXCEPT ![c] = "query"]
    /\ inflight' = inflight \cup {Request(c)}
    /\ concurrent' = [concurrent EXCEPT ![c] = lock # {}]
    /\ skipped' = [skipped EXCEPT ![c] = FALSE]
    /\ UNCHANGED lock

\* A caller that finds another device update running does not wait for it:
\* it goes on to its entry of the cached list at once.
parent_device_update_nowait(c) ==
    IF lock # {}
    THEN /\ pc' = [pc EXCEPT ![c] = "extract"]
         /\ concurrent' = [concurrent EXCEPT ![c] = TRUE]
         /\ skipped' = [skipped EXCEPT ![c] = TRUE]
         /\ UNCHANGED <<lock, inflight>>
    ELSE /\ ThrottleGate(c)
         /\ concurrent' = [concurrent EXCEPT ![c] = FALSE]

\* self._parent_device.update() (switch.py 131): the throttled device update.
parent_device_update(c) == ThrottleEnter(c)

\* update, first statement (switch.py 129-131)
DINRelay_update(c) ==
    /\ c \in outlets
    /\ pc[c] = "idle"
    /\ nUpdates < MaxUpdates
    /\ nUpdates' = nUpdates + 1
    /\ parent_device_update(c)
    /\ fresh' = [fresh EXCEPT ![c] = FALSE]
    /\ waited' = [waited EXCEPT ![c] = sinceOn[c] # NoTime /\ sinceOn[c] >= 5]
    /\ err' = [err EXCEPT ![c] = "none"]
    /\ UNCHANGED <<devVars, setupVars, name, state, statuslist, sinceFetch,
                   cmdVars, sinceOn, lastAnswer, sinceFail>>

\* A caller that waited for the running device update gets its turn.
ThrottleAcquire(c) ==
    /\ pc[c] = "blocked"
    /\ lock = {}
    /\ ThrottleGate(c)
    /\ UNCHANGED <<devVars, setupVars, name, state, err, statuslist, sinceFetch,
                   cmdVars, concurrent, fresh, sinceOn, waited, lastAnswer, sinceFail, nUpdates>>

\* The unit answers the request of c with its outlet table, or the request
\* fails (timeout, transport failure).
DeviceRespond(c, ok) ==
    /\ Request(c) \in inflight
    /\ inflight' = (inflight \ {Request(c)}) \cup
                      { IF ok THEN [by |-> c, status |-> "ok", data |-> dev]
                        ELSE [by |-> c, status |-> "fail", data |-> NoSnapshot] }
    /\ UNCHANGED <<devVars, setupVars, name, state, pc, err, statuslist, sinceFetch,
                   lock, cmdVars, histVars>>

\* The failure is swallowed: the cached list is cleared and update() goes on.
statuslist_swallowed(c) ==
    /\ pc' = [pc EXCEPT ![c] = "extract"]
    /\ statuslist' = NoSnapshot
    /\ UNCHANGED <<err, concurrent, fresh, waited, skipped, sinceFetch, lastAnswer>>

\* The failed call is recorded by the throttle as if it were a fetch.
statuslist_raises_stamped(c) ==
    /\ pc' = [pc EXCEPT ![c] = "idle"]
    /\ err' = [err EXCEPT ![c] = "CommunicationError"]
    /\ concurrent' = [concurrent EXCEPT ![c] = FALSE]
    /\ fresh' = [fresh EXCEPT ![c] = FALSE]
    /\ waited' = [waited EXCEPT ![c] = FALSE]
    /\ skipped' = [skipped EXCEPT ![c] = FALSE]
    /\ sinceFetch' = 0
    /\ UNCHANGED <<statuslist, lastAnswer>>

\* power_switch.statuslist() raises inside DINRelayDevice.update (switch.py
\* 155): nothing is assigned, and the exception leaves DINRelay.update
\* (switch.py 131), which has no handler.
statuslist_raises(c) ==
    /\ pc' = [pc EXCEPT ![c] = "idle"]
    /\ err' = [err EXCEPT ![c] = "CommunicationError"]
    /\ concurrent' = [concurrent EXCEPT ![c] = FALSE]
    /\ fresh' = [fresh EXCEPT ![c] = FALSE]
    /\ waited' = [waited EXCEPT ![c] = FALSE]
    /\ skipped' = [skipped EXCEPT ![c] = FALSE]
    /\ UNCHANGED <<statuslist, sinceFetch, lastAnswer>>

\* power_switch.statuslist() returns to DINRelayDevice.update: the answer is
\* stored and the throttle records the fetch; a failure leaves the device
\* update by exception.
DINRelayDevice_update_return(c) ==
    /\ pc[c] = "query"
    /\ \E r \in inflight :
        /\ r.by = c
        /\ r.status # "pending"
        /\ inflight' = inflight \ {r}
        /\ sinceFail' = IF r.status = "ok" THEN NoTime ELSE 0
        /\ IF r.status = "ok"
           THEN /\ DINRelayDevice_update(r.data)
                /\ lastAnswer' = r.data
                /\ sinceFetch' = 0
                /\ pc' = [pc EXCEPT ![c] = "extract"]
                /\ fresh' = [k \in Ids |-> IF pc[k] # "idle" THEN TRUE ELSE fresh[k]]
                /\ UNCHANGED <<err, concurrent, waited, skipped>>
           ELSE statuslist_raises(c)
    /\ lock' = lock \ {c}
    /\ UNCHANGED <<devVars, setupVars, name, state, cmdVars, sinceOn, nUpdates>>

\* The failed update reports the outlet as off.
get_outlet_status_raises_off(c, e) ==
    /\ err' = [err EXCEPT ![c] = e]
    /\ state' = [state EXCEPT ![c] = FALSE]
    /\ UNCHANGED name

\* get_outlet_status raises (switch.py 133): the assignments of lines 135-136
\* are not reached.
get_outlet_status_raises(c, e) ==
    /\ err' = [err EXCEPT ![c] = e]
    /\ UNCHANGED <<name, state>>

\* update, the rest (switch.py 133-136): the controller takes its entry.
DINRelay_update_finish(c) ==
    /\ pc[c] = "extract"
    /\ LET outlet_status == get_outlet_status(outlet_number[c]) IN
        IF outlet_status.err # "none"
        THEN get_outlet_status_raises(c, outlet_status.err)
        ELSE /\ name' = [name EXCEPT ![c] = OrElse(outlet_status.val[2], Str(outlet_number[c]))]
             /\ state' = [state EXCEPT ![c] = IsOn(outlet_status.val[3])]
             /\ err' = [err EXCEPT ![c] = "none"]
    /\ pc' = [pc EXCEPT ![c] = "idle"]
    /\ concurrent' = [concurrent EXCEPT ![c] = FALSE]
    /\ fresh' = [fresh EXCEPT ![c] = FALSE]
    /\ waited' = [waited EXCEPT ![c] = FALSE]
    /\ skipped' = [skipped EXCEPT ![c] = FALSE]
    /\ UNCHANGED <<devVars, setupVars, cacheVars, cmdVars, sinceOn, lastAnswer, sinceFail, nUpdates>>

\* self._outlet.on() / self._outlet.off(): the set command for the outlet the
\* dlipower.Outlet was built with (switch.py 81); the unit executes it when
\* it is reachable.
Outlet_set(c, on, delivered) ==
    /\ nSetCmds' = nSetCmds + 1
    /\ lastCmd' = <<outlet_number[c], on>>
    /\ dev' = IF delivered THEN SetOutlet(outlet_number[c], on) ELSE dev
    /\ sinceOn' = [sinceOn EXCEPT ![c] =
                      IF on /\ delivered /\ outlet_number[c] <= Len(dev) THEN 0
                      ELSE IF on THEN sinceOn[c] ELSE NoTime]
    /\ waited' = [waited EXCEPT ![c] = IF on THEN waited[c] ELSE FALSE]

\* The on command goes out only when the throttle would let a query out.
Outlet_on_throttled(c, delivered) ==
    IF Throttled
    THEN UNCHANGED <<nSetCmds, lastCmd, dev, sinceOn, waited>>
    ELSE Outlet_set(c, TRUE, delivered)

\* self._outlet.on() (switch.py 123)
Outlet_on(c, delivered) == Outlet_set(c, TRUE, delivered)

\* self._outlet.off() (switch.py 127)
Outlet_off(c, delivered) == Outlet_set(c, FALSE, delivered)

\* turn_on that also marks the controller as on without waiting for an update.
turn_on_optimistic(c, delivered) ==
    /\ c \in outlets
    /\ nTurnCalls < MaxCmds
    /\ nTurnCalls' = nTurnCalls + 1
    /\ lastCall' = <<c, TRUE>>
    /\ Outlet_on(c, delivered)
    /\ state' = [state EXCEPT ![c] = TRUE]
    /\ UNCHANGED <<setupVars, name, pc, err, cacheVars, concurrent, fresh,
                   skipped, lastAnswer, sinceFail, nUpdates, nEnv>>

\* turn_on (switch.py 121-123)
turn_on(c, delivered) ==
    /\ c \in outlets
    /\ nTurnCalls < MaxCmds
    /\ nTurnCalls' = nTurnCalls + 1
    /\ lastCall' = <<c, TRUE>>
    /\ Outlet_on(c, delivered)
    /\ UNCHANGED <<setupVars, name, state, pc, err, cacheVars, concurrent, fresh,
                   skipped, lastAnswer, sinceFail, nUpdates, nEnv>>

\* turn_off (switch.py 125-127)
turn_off(c, delivered) ==
    /\ c \in outlets
    /\ nTurnCalls < MaxCmds
    /\ nTurnCalls' = nTurnCalls + 1
    /\ lastCall' = <<c, FALSE>>
    /\ Outlet_off(c, delivered)
    /\ UNCHANGED <<setupVars, name, state, pc, err, cacheVars, concurrent, fresh,
                   skipped, lastAnswer, sinceFail, nUpdates, nEnv>>

\* ------------------------------------------------------- environment
\* A second passes.
Tick ==
    /\ setup = "done"
    /\ sinceFetch' = Inc(sinceFetch)
    /\ sinceOn' = [c \in Ids |-> Inc(sinceOn[c])]
    /\ sinceFail' = Inc(sinceFail)
    /\ UNCHANGED <<devVars, setupVars, name, state, pc, err, statuslist, lock, inflight,
                   cmdVars, concurrent, fresh, waited, skipped, lastAnswer, nUpdates>>

\* The unit's outlet table loses its last outlet (the topology changes).
Shrink ==
    /\ setup = "done"
    /\ Len(dev) > 1
    /\ nEnv < MaxEnv
    /\ nEnv' = nEnv + 1
    /\ dev' = SubSeq(dev, 1, Len(dev) - 1)
    /\ UNCHANGED <<setupVars, name, state, pc, err, cacheVars, cmdVars, histVars>>

\* An outlet is given another label on the unit.
Relabel(i, l) ==
    /\ setup = "done"
    /\ i \in 1..Len(dev)
    /\ dev[i][2] # l
    /\ nEnv < MaxEnv
    /\ nEnv' = nEnv + 1
    /\ dev' = [dev EXCEPT ![i] = <<dev[i][1], l, dev[i][3]>>]
    /\ UNCHANGED <<setupVars, name, state, pc, err, cacheVars, cmdVars, histVars>>

\* ------------------------------------------------------ specification
\* Nothing is set up yet: no entity, an empty cache, no call made.
Constructed ==
    /\ setup = "pending"
    /\ verify = "none"
    /\ logged = FALSE
    /\ setupQueried = FALSE
    /\ outlets = {}
    /\ outlet_number = [c \in Ids |-> c]
    /\ name = [c \in Ids |-> None]
    /\ state = [c \in Ids |-> FALSE]
    /\ pc = [c \in Ids |-> "idle"]
    /\ err = [c \in Ids |-> "none"]
    /\ statuslist = NoSnapshot
    /\ sinceFetch = NoTime
    /\ lock = {}
    /\ inflight = {}
    /\ nTurnCalls = 0
    /\ nSetCmds = 0
    /\ lastCall = <<0, FALSE>>
    /\ lastCmd = <<0, FALSE>>
    /\ concurrent = [c \in Ids |-> FALSE]
    /\ fresh = [c \in Ids |-> FALSE]
    /\ sinceOn = [c \in Ids |-> NoTime]
    /\ waited = [c \in Ids |-> FALSE]
    /\ skipped = [c \in Ids |-> FALSE]
    /\ lastAnswer = NoSnapshot
    /\ sinceFail = NoTime
    /\ nUpdates = 0
    /\ nEnv = 0

Init ==
    /\ dev \in InitTables
    /\ ignore_unnamed \in { b \in BOOLEAN : b => \E i \in 1..Len(dev) : dev[i][2] = None }
    /\ Constructed

Next ==
    \/ \E verified \in BOOLEAN, answered \in BOOLEAN : setup_platform(verified, answered)
    \/ \E c \in Ids : DINRelay_update(c)
    \/ \E c \in Ids : ThrottleAcquire(c)
    \/ \E c \in Ids, ok \in BOOLEAN : DeviceRespond(c, ok)
    \/ \E c \in Ids : DINRelayDevice_update_return(c)
    \/ \E c \in Ids : DINRelay_update_finish(c)
    \/ \E c \in Ids, delivered \in BOOLEAN : turn_on(c, delivered)
    \/ \E c \in Ids, delivered \in BOOLEAN : turn_off(c, delivered)
    \/ Tick
    \/ Shrink
    \/ \E i \in Ids, l \in Labels : Relabel(i, l)

Spec == Init /\ [][Next]_vars

\* setup_platform alone, on every outlet table of up to MaxOutlets outlets
\* and with either setting of ignore_unnamed.
InitSetup ==
    /\ dev \in UNION { Tables(n) : n \in 1..MaxOutlets }
    /\ ignore_unnamed \in BOOLEAN
    /\ Constructed

NextSetup ==
    \E verified \in BOOLEAN, answered \in BOOLEAN : setup_platform(verified, answered)

SpecSetup == InitSetup /\ [][NextSetup]_vars

\* ------------------------------------------------------------- claims
\* A fetch was recorded less than minInterval (5 s) ago.
InWindow == sinceFetch # NoTime /\ sinceFetch < 5

\* The step puts a new statuslist() request on the wire.
NewRequest == \E r \in inflight' : r.status = "pending" /\ r \notin inflight

\* Controller c passes the throttle's gate in this step.
PassesGate(c) == pc[c] \in {"idle", "blocked"} /\ pc'[c] \in {"query", "extract"}

\* C1: inside the 5 s window after a recorded fetch, no step of any
\* controller puts a statuslist() request on the wire and none changes the
\* cached status list: the fetch that opened the window is the only query.
C1_OneQueryPerWindow ==
    [][InWindow => ~NewRequest /\ statuslist' = statuslist]_vars

\* A controller's update() was answered from the cache, inside the window,
\* while the other controller holds the result of the fetch it ran itself.
C1_Witness ==
    \E c \in outlets, d \in outlets :
        /\ c # d
        /\ pc[c] = "extract" /\ skipped[c] /\ InWindow
        /\ pc[d] = "extract" /\ ~skipped[d] /\ fresh[d]

\* C2: a refresh that passes the gate 5 s or more after the last recorded
\* fetch is not throttled: it puts its own statuslist() request on the wire.
C2_QueryAfterInterval ==
    [][\A c \in Ids :
          (PassesGate(c) /\ sinceFetch # NoTime /\ sinceFetch >= 5)
              => (pc'[c] = "query" /\ Request(c) \in inflight' /\ Request(c) \notin inflight)]_vars

\* A second query is on the wire exactly 5 s after the recorded fetch.
C2_Witness ==
    \E c \in outlets : pc[c] = "query" /\ Request(c) \in inflight /\ sinceFetch = 5

\* C3: at most one statuslist() request of the device cache is in flight.
C3_SingleFlight == Cardinality(inflight) <= 1

\* One request is in flight while another controller's update() waits on it.
C3_Witness ==
    \E c \in outlets, d \in outlets :
        /\ pc[c] = "query" /\ Cardinality(inflight) = 1
        /\ pc[d] = "blocked"

\* C4: a controller whose update() found a device update running, and that
\* reaches the extraction step, extracts from a list stored after it called:
\* the cached list is the last answer of the unit, never the empty or an
\* older one.
C4_ConcurrentCallersSeeResult ==
    \A c \in Ids :
        (pc[c] = "extract" /\ concurrent[c])
            => (fresh[c] /\ statuslist # NoSnapshot /\ statuslist = lastAnswer)

\* A caller that waited on the running query was answered without a query of
\* its own and is about to extract from that query's result.
C4_Witness ==
    \E c \in outlets :
        pc[c] = "extract" /\ concurrent[c] /\ skipped[c] /\ fresh[c] /\ statuslist = lastAnswer

\* C5: an update() issued at least 5 s after the controller's on command was
\* executed, with no off command since, that completes without error reports
\* the outlet as on.
C5_EventuallyOn ==
    [][\A c \in Ids :
          (pc[c] = "extract" /\ pc'[c] = "idle" /\ err'[c] = "none" /\ waited[c])
              => state'[c] = TRUE]_vars

\* C6: when verify() returned false, setup_platform registered no
\* controller, issued no status query, logged the error and returned False.
C6_FailClosed ==
    verify = "false" => (outlets = {} /\ ~setupQueried /\ logged /\ setup = "failed")

\* Verification failed and setup is over.
C6_Witness == verify = "false" /\ setup = "failed" /\ outlets = {}

\* C7: an update() that extracts an outlet number beyond the cached list's
\* length ends with InvalidOutletError.
C7_InvalidOutletError ==
    [][\A c \in Ids :
          (pc[c] = "extract" /\ pc'[c] = "idle"
             /\ statuslist # NoSnapshot /\ outlet_number[c] > Len(statuslist))
              => err'[c] = "InvalidOutletError"]_vars

\* C8: when the query of a refresh fails, the cached status list stays as it
\* was and the controller's update() ends with the failure.
C8_FailureKeepsSnapshot ==
    [][\A c \in Ids :
          (pc[c] = "query" /\ pc'[c] # "query"
             /\ [by |-> c, status |-> "fail", data |-> NoSnapshot] \in inflight)
              => (statuslist' = statuslist /\ pc'[c] = "idle"
                    /\ err'[c] = "CommunicationError")]_vars

\* A refresh has failed and the cache still holds the list fetched before.
C8_Witness ==
    \E c \in outlets :
        pc[c] = "idle" /\ err[c] = "CommunicationError" /\ statuslist # NoSnapshot

\* C9: a step that ends a controller's update() with a failure leaves the
\* reported name and state of every controller as they were.
C9_LastKnownState ==
    [][\A c \in Ids :
          (pc[c] # "idle" /\ pc'[c] = "idle" /\ err'[c] # "none")
              => (name' = name /\ state' = state)]_vars

\* A controller whose update() failed still reports the outlet as on.
C9_Witness ==
    \E c \in outlets : pc[c] = "idle" /\ err[c] # "none" /\ state[c] = TRUE

\* C10: every turn_on / turn_off call issues one set command, for the
\* caller's own outlet number and the requested state.
C10_SetBypassesThrottle ==
    [][nTurnCalls' # nTurnCalls
          => (nSetCmds' = nSetCmds + 1
                /\ lastCmd' = <<outlet_number[lastCall'[1]], lastCall'[2]>>)]_vars

\* A set command was issued inside the throttle window.
C10_Witness ==
    /\ nSetCmds = 1 /\ nTurnCalls = 1 /\ InWindow
    /\ lastCmd = <<outlet_number[lastCall[1]], lastCall[2]>>

\* The step ends the update() of controller c without error.
Updated(c) == pc[c] = "extract" /\ pc'[c] = "idle" /\ err'[c] = "none"

\* The step is setup_platform handing its entities to add_entities.
Registers == setup = "pending" /\ setup' = "done"

\* C11: an outlet whose label is absent is displayed as
\* controllerName + "_" + str(index): at registration, when its entry of the
\* status list has no description, and after every update() that extracts an
\* entry without description.
C11_AbsentLabelShowsIndex ==
    [][/\ Registers =>
            \A c \in outlets' :
                dev[c][2] = None => DINRelay_name(c)' = "DINRelay_" \o ToString(c)
       /\ \A c \in Ids :
            (Updated(c) /\ c <= Len(statuslist) /\ statuslist[c][2] = None)
                => DINRelay_name(c)' = "DINRelay_" \o ToString(c)]_vars

\* An outlet whose label was removed on the unit after registration is
\* displayed by its index after its update().
C11_Witness ==
    \E c \in outlets :
        /\ pc[c] = "idle" /\ err[c] = "none" /\ nUpdates >= 1 /\ nEnv = 1
        /\ c <= Len(statuslist) /\ statuslist[c][2] = None
        /\ DINRelay_name(c) = "DINRelay_" \o ToString(c)

\* C12: with ignore_unnamed set, setup_platform registers at most as many
\* controllers as the status list has entries, strictly fewer when an entry
\* has no description, and none for an entry without description.
C12_IgnoreUnnamed ==
    (setup = "done" /\ ignore_unnamed)
        => /\ Cardinality(outlets) <= Len(dev)
           /\ (\E i \in 1..Len(dev) : dev[i][2] = None) => Cardinality(outlets) < Len(dev)
           /\ \A c \in outlets : dev[c][2] # None

\* A list with a named and an unnamed entry was registered with
\* ignore_unnamed set: one controller for two entries.
C12_Witness ==
    /\ setup = "done" /\ ignore_unnamed
    /\ \E i \in 1..Len(dev) : dev[i][2] = None
    /\ outlets # {} /\ Cardinality(outlets) < Len(dev)

\* C13: the unique id of a controller is hostname + "_" + index; no step
\* after registration (update(), turn_on, turn_off, a label changing on
\* the unit) changes it, and two registered controllers never share one.
C13_UniqueIdStable ==
    [][/\ \A c \in outlets' : DINRelay_unique_id(c)' = "relay.local_" \o ToString(c)
       /\ \A c \in outlets : c \in outlets' /\ DINRelay_unique_id(c)' = DINRelay_unique_id(c)
       /\ \A c, d \in outlets' :
            c # d => DINRelay_unique_id(c)' # DINRelay_unique_id(d)']_vars

\* A controller registered with a label took another name in an update()
\* and was switched; its unique id is still built from its index.
C13_Witness ==
    \E c \in outlets :
        /\ c >= 2 /\ name[c] # "lamp" /\ nUpdates >= 1 /\ nTurnCalls >= 1
        /\ lastCall[1] = c
        /\ DINRelay_unique_id(c) = "relay.local_" \o ToString(c)

\* C14: turn_on and turn_off change nothing on the client side: not the
\* cached status list, not the recorded fetch time, and no controller's
\* is_on or name.
C14_CommandsChangeNothingLocally ==
    [][nTurnCalls' # nTurnCalls =>
            /\ statuslist' = statuslist
            /\ sinceFetch' = sinceFetch
            /\ name' = name
            /\ state' = state]_vars

\* The unit executed the on command of a controller that still reports off
\* from a cached list in which the outlet is not on.
C14_Witness ==
    \E c \in outlets :
        /\ lastCall = <<c, TRUE>> /\ lastCmd = <<c, TRUE>>
        /\ c <= Len(dev) /\ dev[c][3] = "ON"
        /\ c <= Len(statuslist) /\ statuslist[c][3] # "ON"
        /\ ~state[c]

\* Controller c's statuslist() call returns to the device update with the
\* answer r in this step.
Returns(c, r) == pc[c] = "query" /\ pc'[c] # "query" /\ r \in inflight /\ r \notin inflight' /\ r.by = c

\* C15: the cached status list is empty or the complete answer of one
\* statuslist() call; it changes only when DINRelayDevice.update stores an
\* answer, and then it becomes that answer as a whole.
C15_SnapshotWholesale ==
    [][/\ statuslist' = NoSnapshot \/ statuslist' = lastAnswer'
       /\ statuslist' # statuslist =>
            \E c \in Ids : \E r \in inflight : Returns(c, r) /\ r.status = "ok"
       /\ \A c \in Ids : \A r \in inflight :
            (Returns(c, r) /\ r.status = "ok") => statuslist' = r.data]_vars

\* A cached list was replaced by the shorter answer of a later query: no
\* entry of the older list is left.
C15_Witness ==
    /\ nUpdates >= 2 /\ nEnv = 1
    /\ statuslist # NoSnapshot /\ statuslist = dev
    /\ Len(statuslist) < MaxOutlets

\* C16: a statuslist() call that fails leaves the recorded fetch time as it
\* was, and the first device update to pass the throttle after a failed one
\* queries the unit again, however soon after the failure.
C16_FailureKeepsWindowOpen ==
    [][/\ \A c \in Ids : \A r \in inflight :
            (Returns(c, r) /\ r.status = "fail") => sinceFetch' = sinceFetch
       /\ \A c \in Ids :
            (PassesGate(c) /\ sinceFail # NoTime) => (pc'[c] = "query" /\ NewRequest)]_vars

\* After a fetch that succeeded and a later one that failed, a query is on
\* the wire less than 5 s after the failure.
C16_Witness ==
    \E c \in outlets :
        /\ pc[c] = "query" /\ Request(c) \in inflight
        /\ sinceFail # NoTime /\ sinceFail < 5
        /\ statuslist # NoSnapshot

\* C17: whenever a controller's update() is about to read its entry of the
\* cached list (get_outlet_status), the cached list is not empty, however
\* the updates of the controllers interleave.
C17_ReadsNonEmptySnapshot ==
    \A c \in Ids : pc[c] = "extract" => statuslist # NoSnapshot

\* The very first device update failed while a second controller was waiting
\* for it; the waiting controller then queried itself and reads its entry.
C17_Witness ==
    \E c, d \in outlets :
        /\ c # d
        /\ pc[c] = "extract" /\ concurrent[c] /\ ~skipped[c]
        /\ pc[d] = "idle" /\ err[d] = "CommunicationError"
        /\ nUpdates = 2

\* C18: is_on is true exactly when the state of the outlet's entry is "ON";
\* any other state, a missing one included, is reported as off: at
\* registration and after every update() that extracted an entry.
C18_OnIffExactlyON ==
    [][/\ Registers => \A c \in outlets' : state'[c] = (dev[c][3] = "ON")
       /\ \A c \in Ids :
            (Updated(c) /\ c <= Len(statuslist))
                => state'[c] = (statuslist[c][3] = "ON")]_vars

\* The only update() made so far, by a controller whose entry carries no
\* state, left it reporting off (an update() of any other controller would
\* have ended in an IndexError).
C18_Witness ==
    \E c \in outlets :
        /\ nUpdates = 1 /\ statuslist # NoSnapshot
        /\ \A d \in Ids : pc[d] = "idle"
        /\ c <= Len(statuslist) /\ statuslist[c][3] = None
        /\ err[c] = "none" /\ ~state[c]
        /\ \A d \in outlets \ {c} : d > Len(statuslist) /\ err[d] = "none"

====
